---- MODULE Spec2Model ----
(***************************************************************************)
(* Model of custom_components/stateful_scenes/StatefulScenes.py: the Scene *)
(* class (per-entity caches, aggregate verdict, activation, restore and    *)
(* the debounced change callback).                                         *)
(*                                                                         *)
(* Python values are tagged records, one field set per Python type, so    *)
(* that isinstance tests and == are computed as Python computes them:     *)
(*   None  -> [t |-> "none"]          bool -> [t |-> "bool", b |-> 0/1]    *)
(*   int   -> [t |-> "num", n |-> i]  str  -> [t |-> "str", s |-> "..."]   *)
(*   list  -> [t |-> "list", items |-> <<v1, ...>>]                        *)
(*   dict  -> [t |-> "dict", map |-> [key |-> v]]                          *)
(* A homeassistant State object is [domain, state, attributes] where      *)
(* attributes is a function from attribute names to values.  An entity id  *)
(* "light.a" is the pair <<"light", "a">>, so that split(".")[0] is [1].   *)
(***************************************************************************)
EXTENDS Integers, Sequences, FiniteSets, TLC

VARIABLES
    live,                   \* hass.states: entity id -> State or None
    is_on,                  \* Scene._is_on: None, True or False
    states,                 \* Scene.states: entity id -> True / False / None
    restore_states,         \* Scene.restore_states: entity id -> State or None
    restore_on_deactivate,  \* Scene._restore_on_deactivate
    ignore_unavailable,     \* Scene._ignore_unavailable
    number_tolerance,       \* Scene._number_tolerance
    entity_id,              \* Scene._entity_id: the scene's own entity id or None
    pending,                \* update_callback coroutines suspended in asyncio.sleep
    requested,              \* schedule_update(True) requests not yet served
    op,                     \* the operation that ran last
    calls,                  \* hass.services.call invocations made by the last operation
    fetched,                \* hass.states.get invocations made by the last operation
    error,                  \* exception the last operation raised, or "none"
    call,                   \* the comparison function called last, with its arguments
    result,                 \* what that call returned or raised
    learn,                  \* Scene.learn
    transition_time         \* Scene._transition_time: a number or None

vars == <<live, is_on, states, restore_states, restore_on_deactivate,
          ignore_unavailable, number_tolerance, entity_id, pending, requested,
          op, calls, fetched, error, call, result, learn, transition_time>>

-----------------------------------------------------------------------------
(* Python values *)

None == [t |-> "none"]
PyTrue == [t |-> "bool", b |-> 1]
PyFalse == [t |-> "bool", b |-> 0]
Num(i) == [t |-> "num", n |-> i]
Str(x) == [t |-> "str", s |-> x]
List(xs) == [t |-> "list", items |-> xs]
Dict(m) == [t |-> "dict", map |-> m]

PyBool(p) == IF p THEN PyTrue ELSE PyFalse

\* bool(v): Python truthiness of the values the Scene tests with `not`
Truthy(v) ==
    CASE v.t = "none" -> FALSE
      [] v.t = "bool" -> v.b = 1
      [] v.t = "num"  -> v.n # 0
      [] v.t = "str"  -> v.s # ""
      [] v.t = "list" -> Len(v.items) > 0
      [] v.t = "dict" -> DOMAIN v.map # {}
      [] OTHER        -> TRUE

\* isinstance(v, int) or isinstance(v, float); bool is a subclass of int
IsNumber(v) == v.t \in {"num", "bool"}
\* isinstance(v, list) or isinstance(v, tuple)
IsList(v) == v.t = "list"
IsDict(v) == v.t = "dict"
\* the numeric value of an int, float or bool
NumVal(v) == IF v.t = "bool" THEN v.b ELSE v.n

Abs(i) == IF i < 0 THEN -i ELSE i
Min(a, b) == IF a < b THEN a ELSE b

-----------------------------------------------------------------------------
(* Scene configuration *)

\* number_tolerance default of Hub.__init__
DefaultTolerance == 3

\* Scene._transition_time as set by Scene.__init__ (0.0)
TransitionTime == 0

\* the values Scene.set_transition_time is called with
TransitionTimes == {None, Num(TransitionTime), Num(5)}

\* the values Scene.set_number_tolerance is called with
Tolerances == {None, Num(0), Num(DefaultTolerance)}

\* self.entities in declared order, and the target of each entity
Entities == << <<"light", "a">>, <<"switch", "b">> >>
EntitySet == {Entities[i] : i \in 1..Len(Entities)}
entities ==
    [e \in EntitySet |->
        IF e = <<"light", "a">>
        THEN [state |-> Str("on"), brightness |-> Num(100)]
        ELSE [state |-> Str("on")]]

\* the scene's own entity id when it resolves
SceneEntityId == Str("scene.s")

\* self.name
SceneName == Str("Evening")

\* const.ATTRIBUTES_TO_CHECK: per-domain allow-list, in list order
ATTRIBUTES_TO_CHECK ==
    [light |-> <<"brightness", "color_temp", "rgb_color", "xy_color", "hs_color", "effect">>,
     climate |-> <<"temperature", "hvac_mode">>,
     switch |-> <<>>,
     cover |-> <<"current_position">>,
     media_player |-> <<"volume_level", "source">>]

\* attribute.endswith("_color")
EndsWithColor(attribute) == attribute \in {"rgb_color", "xy_color", "hs_color"}

State(d, s, attrs) == [domain |-> d, state |-> Str(s), attributes |-> attrs]
NoAttrs == [a \in {} |-> None]

\* bound on update_callback coroutines in flight (sleeping or with their
\* schedule_update request not yet served)
MaxPending == 2

\* bound on the same coroutines in behaviours where every method of the
\* Scene is called (stacked waits are explored under SpecNotify)
MaxInFlight == 1

\* the observations hass.states.get can return for an entity
Observations(e) ==
    IF e = <<"light", "a">>
    THEN {None,
          State("light", "on", [brightness |-> Num(102)]),
          State("light", "on", [brightness |-> Num(104)]),
          State("light", "unavailable", [friendly_name |-> Str("A")])}
    ELSE {State("switch", "on", NoAttrs),
          State("switch", "unavailable", NoAttrs)}

-----------------------------------------------------------------------------
(* Comparisons *)

\* Scene.compare_numbers
compare_numbers(number1, number2) ==
    Abs(NumVal(number1) - NumVal(number2)) <= number_tolerance

RECURSIVE compare_values(_, _)
RECURSIVE compare_dicts(_, _)
RECURSIVE compare_lists(_, _)

RECURSIVE compare_dicts_both_ways(_, _)
\* compare_dicts made symmetric (the keys of dict2 are looked up in dict1 as
\* well)
compare_dicts_both_ways(dict1, dict2) ==
    \A key \in DOMAIN dict1.map \cup DOMAIN dict2.map :
        /\ key \in DOMAIN dict1.map
        /\ key \in DOMAIN dict2.map
        /\ compare_values(dict1.map[key], dict2.map[key])

\* Scene.compare_dicts
compare_dicts(dict1, dict2) ==
    \A key \in DOMAIN dict1.map :
        /\ key \in DOMAIN dict2.map
        /\ compare_values(dict1.map[key], dict2.map[key])

\* Scene.compare_values
compare_values(value1, value2) ==
    IF IsDict(value1) /\ IsDict(value2) THEN compare_dicts(value1, value2)
    ELSE IF IsList(value1) /\ IsList(value2) THEN compare_lists(value1, value2)
    ELSE IF IsNumber(value1) /\ IsNumber(value2) THEN compare_numbers(value1, value2)
    ELSE value1 = value2

\* Scene.compare_lists: zip stops at the shorter list
compare_lists(list1, list2) ==
    \A i \in 1..Min(Len(list1.items), Len(list2.items)) :
        compare_values(list1.items[i], list2.items[i])

\* what iterating a value yields to zip(): the elements of a list, the
\* characters of a str, the keys of a dict (a non-empty str or dict yields
\* str elements, of which the first is the one the loop reaches)
IterItems(v) ==
    CASE v.t = "list" -> v.items
      [] v.t = "str"  -> IF v.s = "" THEN <<>> ELSE <<v>>
      [] v.t = "dict" -> IF DOMAIN v.map = {} THEN <<>>
                         ELSE <<Str(CHOOSE k \in DOMAIN v.map : TRUE)>>
      [] OTHER        -> <<>>
\* iter(v) is defined
IsIterable(v) == v.t \in {"list", "str", "dict"}

RECURSIVE colors_loop(_, _, _, _)
\* the for loop of Scene.compare_colors from component i on
colors_loop(items1, items2, i, factor) ==
    IF i > Min(Len(items1), Len(items2)) THEN "True"
    ELSE IF ~IsNumber(items1[i]) \/ ~IsNumber(items2[i]) THEN "TypeError"
    ELSE IF Abs(NumVal(items1[i]) - NumVal(items2[i])) * factor > number_tolerance
         THEN "False"
    ELSE colors_loop(items1, items2, i + 1, factor)

\* Scene.compare_colors: "True", "False", or the exception it raises
compare_colors_result(color1, color2, is_xy_color) ==
    IF color1 = None /\ color2 = None THEN "True"
    ELSE IF color1 = None \/ color2 = None THEN "False"
    ELSE IF ~IsList(color1) /\ ~IsList(color2) THEN "False"
    ELSE IF ~IsIterable(color1) \/ ~IsIterable(color2) THEN "TypeError"
    ELSE colors_loop(IterItems(color1), IterItems(color2), 1,
                     IF is_xy_color THEN 100 ELSE 1)

compare_colors(color1, color2, is_xy_color) ==
    compare_colors_result(color1, color2, is_xy_color) = "True"

-----------------------------------------------------------------------------
(* Per-entity comparison *)

Range(f) == {f[x] : x \in DOMAIN f}

\* ATTRIBUTES_TO_CHECK.get(domain) as a set, empty for a domain not listed
AllowList(domain) ==
    IF domain \in DOMAIN ATTRIBUTES_TO_CHECK
    THEN Range(ATTRIBUTES_TO_CHECK[domain])
    ELSE {}

\* ATTRIBUTES_TO_CHECK.get(domain) in list order
AllowSeq(domain) ==
    IF domain \in DOMAIN ATTRIBUTES_TO_CHECK
    THEN ATTRIBUTES_TO_CHECK[domain]
    ELSE <<>>

\* the comparison of one attribute in check_state and is_interesting_update:
\* "True", "False", or the exception compare_colors raises
attribute_match_result(attribute, wanted, got) ==
    IF EndsWithColor(attribute)
    THEN compare_colors_result(wanted, got, attribute = "xy_color")
    ELSE IF compare_values(wanted, got) THEN "True" ELSE "False"

attribute_match(attribute, wanted, got) ==
    attribute_match_result(attribute, wanted, got) = "True"

RECURSIVE attributes_loop(_, _, _, _)
\* the attribute loop of check_state and is_interesting_update from the i-th
\* allow-listed attribute on: "False" at the first attribute present on both
\* sides that does not match, the exception if its comparison raises,
\* "True" when the loop ends
attributes_loop(allowed, i, wanted, got) ==
    IF i > Len(allowed) THEN "True"
    ELSE IF allowed[i] \notin DOMAIN wanted \/ allowed[i] \notin DOMAIN got
         THEN attributes_loop(allowed, i + 1, wanted, got)
    ELSE LET r == attribute_match_result(allowed[i], wanted[allowed[i]],
                                         got[allowed[i]])
         IN  IF r = "True" THEN attributes_loop(allowed, i + 1, wanted, got)
             ELSE r

\* Scene.check_state against the target dict of an entity: "True", "False",
\* "None", or the exception it raises
check_state_result(target, new_state, ignore) ==
    IF new_state = None THEN "False"
    ELSE IF ignore /\ new_state.state = Str("unavailable") THEN "None"
    ELSE IF ~compare_values(target.state, new_state.state) THEN "False"
    ELSE attributes_loop(AllowSeq(new_state.domain), 1, target,
                         new_state.attributes)

\* Scene.check_state: True, False or None (no target of self.entities has a
\* colour attribute, so no comparison of the scene's entities raises)
check_state(e, new_state, ignore) ==
    LET r == check_state_result(entities[e], new_state, ignore)
    IN  CASE r = "True" -> PyTrue
          [] r = "None" -> None
          [] OTHER      -> PyFalse

\* Scene.is_interesting_update: "True", "False", or the exception it raises
\* (AttributeError on new_state.state when new_state is None)
is_interesting_update_result(old_state, new_state) ==
    IF old_state = None THEN "True"
    ELSE IF new_state = None THEN "AttributeError"
    ELSE IF ~compare_values(old_state.state, new_state.state) THEN "True"
    ELSE LET r == attributes_loop(AllowSeq(new_state.domain), 1,
                                  old_state.attributes, new_state.attributes)
         IN  CASE r = "False" -> "True"
               [] r = "True"  -> "False"
               [] OTHER       -> r

\* Scene.is_interesting_update raises
is_interesting_update_raises(old_state, new_state) ==
    is_interesting_update_result(old_state, new_state) \notin {"True", "False"}

\* Scene.is_interesting_update, when it returns
is_interesting_update(old_state, new_state) ==
    is_interesting_update_result(old_state, new_state) = "True"

-----------------------------------------------------------------------------
(* Aggregation *)

\* all(states) over the entries of self.states that are not None
all_states(st) ==
    \A i \in 1..Len(Entities) :
        st[Entities[i]] # None => Truthy(st[Entities[i]])

\* aggregate that gives None when no entity has a known result
aggregate_unknown_when_empty(st) ==
    IF \A e \in EntitySet : st[e] = None THEN None ELSE PyBool(all_states(st))

\* the tail of Scene.check_all_states after the loop: the assignment
\* `self._is_on = False` under `if not states` is followed, with no return
\* or else, by `self._is_on = all(states)`, which is the value that stays
aggregate(st) == PyBool(all_states(st))

RECURSIVE scan_only_on_false(_, _, _, _, _, _)
\* scan with the short-circuit taken only when the result is False (an
\* Unknown result does not stop the pass)
scan_only_on_false(i, st, got, lv, restoring, ignore) ==
    IF i > Len(Entities)
    THEN [states |-> st, is_on |-> aggregate(st), fetched |-> got]
    ELSE LET e == Entities[i]
             st2 == [st EXCEPT ![e] = check_state(e, lv[e], ignore)]
             got2 == Append(got, e)
         IN  IF ~restoring /\ st2[e] = PyFalse
             THEN [states |-> st2, is_on |-> PyFalse, fetched |-> got2]
             ELSE scan_only_on_false(i + 1, st2, got2, lv, restoring, ignore)

RECURSIVE scan(_, _, _, _, _, _)
\* the loop of Scene.check_all_states from the i-th declared entity on;
\* the result is the new self.states, the new _is_on and the entities fetched
scan(i, st, got, lv, restoring, ignore) ==
    IF i > Len(Entities)
    THEN [states |-> st, is_on |-> aggregate(st), fetched |-> got]
    ELSE LET e == Entities[i]
             st2 == [st EXCEPT ![e] = check_state(e, lv[e], ignore)]
             got2 == Append(got, e)
         IN  IF ~restoring /\ ~Truthy(st2[e])
             THEN [states |-> st2, is_on |-> PyFalse, fetched |-> got2]
             ELSE scan(i + 1, st2, got2, lv, restoring, ignore)

\* check_all_states that starts from a fresh self.states instead of the one
\* the previous pass left
check_all_states_from_scratch(st, lv, restoring, ignore) ==
    scan(1, [e \in EntitySet |-> PyFalse], <<>>, lv, restoring, ignore)

\* Scene.check_all_states
check_all_states(st, lv, restoring, ignore) ==
    scan(1, st, <<>>, lv, restoring, ignore)

-----------------------------------------------------------------------------
(* Restore *)

\* restore_entry that copies every observed attribute
restore_entry_all_attributes(state) ==
    [k \in {"state"} \cup DOMAIN state.attributes |->
        IF k = "state" THEN state.state ELSE state.attributes[k]]

\* the entry Scene.restore builds for one stored State
restore_entry(state) ==
    [k \in {"state"} \cup (AllowList(state.domain) \cap DOMAIN state.attributes) |->
        IF k = "state" THEN state.state ELSE state.attributes[k]]

\* the entities dict Scene.restore builds from self.restore_states
restore_entities(rs) ==
    [e \in {x \in EntitySet : rs[x] # None} |-> restore_entry(rs[e])]

\* Scene.restore: the service call it makes; service_data has the key
\* "transition" only when self._transition_time is not None
restore(rs, transition) ==
    [domain |-> "scene", service |-> "apply",
     service_data |->
        IF transition # None
        THEN [entities |-> restore_entities(rs), transition |-> transition]
        ELSE [entities |-> restore_entities(rs)]]

-----------------------------------------------------------------------------
(* Activation *)

\* str + value raises TypeError unless value is a str
concat_raises(a, b) == a.t # "str" \/ b.t # "str"

\* the exception Scene.turn_on raises for the scene entity id eid, or "none"
turn_on_error(eid) ==
    IF eid = None
    THEN IF concat_raises(SceneName, eid) THEN "TypeError"
         ELSE "StatefulScenesYamlInvalid"
    ELSE "none"

\* the service call of Scene.turn_on
turn_on_call(eid, transition) ==
    [domain |-> "scene", service |-> "turn_on",
     target |-> [entity_id |-> eid],
     service_data |-> [transition |-> transition]]

\* the service call of Scene.turn_off when restore_on_deactivate is off
turn_off_call ==
    [domain |-> "homeassistant", service |-> "turn_off",
     target |-> [entity_id |-> Entities]]

\* turn_off_calls with the restore_on_deactivate test inverted
turn_off_calls_inverted(on, restoring, rs, transition) ==
    IF ~Truthy(on) THEN <<>>
    ELSE IF ~restoring THEN <<restore(rs, transition)>>
    ELSE <<turn_off_call>>

\* the calls Scene.turn_off makes
turn_off_calls(on, restoring, rs, transition) ==
    IF ~Truthy(on) THEN <<>>
    ELSE IF restoring THEN <<restore(rs, transition)>>
    ELSE <<turn_off_call>>

\* turn_off_is_on with the early return taken only for False
turn_off_is_on_only_false(on) == IF on = PyFalse THEN on ELSE PyFalse

\* _is_on after Scene.turn_off
turn_off_is_on(on) == IF ~Truthy(on) THEN on ELSE PyFalse

\* run_update that ignores the previous value of the flag
run_update_any_true(old_flag, new_flag) == new_flag = TRUE

\* run_update of Scene.set_restore_on_deactivate
run_update(old_flag, new_flag) == old_flag = FALSE /\ new_flag = TRUE

-----------------------------------------------------------------------------
(* The state machine *)

NoEntity == <<"", "">>

\* a call of one of the comparison functions: its name, its two arguments
\* and its boolean argument (is_xy_color, ignore_unavailable)
Call(fn, a, b, flag) == [fn |-> fn, a |-> a, b |-> b, flag |-> flag]
NoCall == Call("none", None, None, FALSE)
Op(name, e, v) == [name |-> name, entity |-> e, value |-> v]

TypeOK ==
    /\ live \in [EntitySet -> UNION {Observations(e) : e \in EntitySet}]
    /\ \A e \in EntitySet : live[e] \in Observations(e)
    /\ \A e \in EntitySet : restore_states[e] \in Observations(e) \cup {None}
    /\ is_on \in {None, PyTrue, PyFalse}
    /\ \A e \in EntitySet : states[e] \in {None, PyTrue, PyFalse}
    /\ restore_on_deactivate \in BOOLEAN
    /\ ignore_unavailable \in BOOLEAN
    /\ pending \in 0..MaxPending
    /\ requested \in 0..MaxPending
    /\ learn \in BOOLEAN
    /\ transition_time \in TransitionTimes
    /\ number_tolerance \in 0..DefaultTolerance

\* Scene.__init__ of a declared scene (learn is False unless the scene's
\* configuration says otherwise), with the platform's entity states and
\* the resolution of the scene's entity id as found at construction
Init ==
    /\ live \in [EntitySet -> UNION {Observations(e) : e \in EntitySet}]
    /\ \A e \in EntitySet : live[e] \in Observations(e)
    /\ is_on = None
    /\ states = [e \in EntitySet |-> PyFalse]
    /\ restore_states = [e \in EntitySet |-> None]
    /\ restore_on_deactivate = TRUE
    /\ ignore_unavailable = FALSE
    /\ number_tolerance = DefaultTolerance
    /\ entity_id \in {SceneEntityId, None}
    /\ pending = 0
    /\ requested = 0
    /\ op = Op("__init__", NoEntity, FALSE)
    /\ call = NoCall
    /\ learn = FALSE
    /\ transition_time = Num(TransitionTime)
    /\ result = "none"
    /\ calls = <<>>
    /\ fetched = <<>>
    /\ error = "none"

\* Scene.turn_on
turn_on ==
    /\ op' = Op("turn_on", NoEntity, FALSE)
    /\ UNCHANGED <<call, result, learn, transition_time>>
    /\ error' = turn_on_error(entity_id)
    /\ IF error' # "none"
       THEN /\ calls' = <<>>
            /\ UNCHANGED is_on
       ELSE /\ calls' = <<turn_on_call(entity_id, transition_time)>>
            /\ is_on' = PyTrue
    /\ fetched' = <<>>
    /\ UNCHANGED <<live, states, restore_states, restore_on_deactivate,
                   ignore_unavailable, number_tolerance, entity_id, pending,
                   requested>>

\* Scene.turn_off
turn_off ==
    /\ op' = Op("turn_off", NoEntity, FALSE)
    /\ UNCHANGED <<call, result, learn, transition_time>>
    /\ calls' = turn_off_calls(is_on, restore_on_deactivate, restore_states,
                             transition_time)
    /\ is_on' = turn_off_is_on(is_on)
    /\ fetched' = <<>>
    /\ error' = "none"
    /\ UNCHANGED <<live, states, restore_states, restore_on_deactivate,
                   ignore_unavailable, number_tolerance, entity_id, pending,
                   requested>>

\* RunCheckAllStates whose pass stops at the first failing entity whatever
\* restore_on_deactivate is
RunCheckAllStates_stopping(restoring) ==
    LET r == check_all_states(states, live, FALSE, ignore_unavailable)
    IN  /\ states' = r.states
        /\ is_on' = r.is_on
        /\ fetched' = r.fetched

\* the effect of a call of Scene.check_all_states on the scene
RunCheckAllStates(restoring) ==
    LET r == check_all_states(states, live, restoring, ignore_unavailable)
    IN  /\ states' = r.states
        /\ is_on' = r.is_on
        /\ fetched' = r.fetched

\* Scene.check_all_states called directly
check_all ==
    /\ op' = Op("check_all_states", NoEntity, FALSE)
    /\ UNCHANGED <<call, result, learn, transition_time>>
    /\ RunCheckAllStates(restore_on_deactivate)
    /\ calls' = <<>>
    /\ error' = "none"
    /\ UNCHANGED <<live, restore_states, restore_on_deactivate,
                   ignore_unavailable, number_tolerance, entity_id, pending,
                   requested>>

\* Scene.set_restore_on_deactivate
set_restore_on_deactivate(v) ==
    /\ op' = Op("set_restore_on_deactivate", NoEntity, v)
    /\ UNCHANGED <<call, result, learn, transition_time>>
    /\ restore_on_deactivate' = v
    /\ IF run_update(restore_on_deactivate, v) /\ v
       THEN RunCheckAllStates(v)
       ELSE /\ fetched' = <<>>
            /\ UNCHANGED <<states, is_on>>
    /\ calls' = <<>>
    /\ error' = "none"
    /\ UNCHANGED <<live, restore_states, ignore_unavailable, number_tolerance,
                   entity_id, pending, requested>>

\* Scene.set_transition_time
set_transition_time(v) ==
    /\ op' = Op("set_transition_time", NoEntity, FALSE)
    /\ transition_time' = v
    /\ calls' = <<>>
    /\ fetched' = <<>>
    /\ error' = "none"
    /\ UNCHANGED <<live, is_on, states, restore_states, restore_on_deactivate,
                   ignore_unavailable, number_tolerance, entity_id, pending,
                   requested, call, result, learn>>

\* Scene.set_number_tolerance: `number_tolerance or 0`
set_number_tolerance(v) ==
    /\ op' = Op("set_number_tolerance", NoEntity, FALSE)
    /\ number_tolerance' = IF Truthy(v) THEN NumVal(v) ELSE 0
    /\ calls' = <<>>
    /\ fetched' = <<>>
    /\ error' = "none"
    /\ UNCHANGED <<live, is_on, states, restore_states, restore_on_deactivate,
                   ignore_unavailable, entity_id, pending, requested, call,
                   result, learn, transition_time>>

\* Scene.set_ignore_unavailable
set_ignore_unavailable(v) ==
    /\ op' = Op("set_ignore_unavailable", NoEntity, v)
    /\ UNCHANGED <<call, result, learn, transition_time>>
    /\ ignore_unavailable' = v
    /\ calls' = <<>>
    /\ fetched' = <<>>
    /\ error' = "none"
    /\ UNCHANGED <<live, is_on, states, restore_states, restore_on_deactivate,
                   number_tolerance, entity_id, pending, requested>>

\* waits_after where every event waits, interesting or not
waits_after_always(waiting, interesting) == waiting + 1

\* the update_callback coroutines suspended in asyncio.sleep after one more
\* event was handled: each interesting event adds a coroutine of its own
waits_after(waiting, interesting) ==
    IF interesting THEN waiting + 1 ELSE waiting

\* stored_state that keeps the new state of the event
stored_state_new(old_state, new_state) == new_state

\* what Scene.update_callback stores for the entity of the event
stored_state(old_state, new_state) == old_state

\* An entity changes from live[e] to new_state and the platform delivers
\* the state_changed event to Scene.update_callback, which runs up to its
\* await: it stores a state and, if the update is interesting, suspends in
\* asyncio.sleep(debounce_time).
update_callback(e, new_state) ==
    LET old_state == live[e]
        raises == is_interesting_update_raises(old_state, new_state)
        interesting == ~raises /\ is_interesting_update(old_state, new_state)
    IN  /\ new_state # old_state
        /\ interesting => pending + requested < MaxPending
        /\ op' = Op("update_callback", e, interesting)
        /\ UNCHANGED <<call, result, learn, transition_time>>
        /\ live' = [live EXCEPT ![e] = new_state]
        /\ restore_states' =
              [restore_states EXCEPT ![e] = stored_state(old_state, new_state)]
        /\ error' = IF raises
                    THEN is_interesting_update_result(old_state, new_state)
                    ELSE "none"
        /\ pending' = waits_after(pending, interesting)
        /\ calls' = <<>>
        /\ fetched' = <<>>
        /\ UNCHANGED <<is_on, states, restore_on_deactivate, ignore_unavailable,
                       number_tolerance, entity_id, requested>>

\* debounce_elapsed where the first wait to elapse cancels the other waits
debounce_elapsed_once ==
    /\ pending > 0
    /\ op' = Op("schedule_update", NoEntity, TRUE)
    /\ UNCHANGED <<call, result, learn, transition_time>>
    /\ pending' = 0
    /\ requested' = requested + 1
    /\ calls' = <<>>
    /\ fetched' = <<>>
    /\ error' = "none"
    /\ UNCHANGED <<live, is_on, states, restore_states, restore_on_deactivate,
                   ignore_unavailable, number_tolerance, entity_id>>

\* asyncio.sleep returns in one suspended update_callback, which calls
\* self.schedule_update(True)
debounce_elapsed ==
    /\ pending > 0
    /\ op' = Op("schedule_update", NoEntity, TRUE)
    /\ UNCHANGED <<call, result, learn, transition_time>>
    /\ pending' = pending - 1
    /\ requested' = requested + 1
    /\ calls' = <<>>
    /\ fetched' = <<>>
    /\ error' = "none"
    /\ UNCHANGED <<live, is_on, states, restore_states, restore_on_deactivate,
                   ignore_unavailable, number_tolerance, entity_id>>

\* the platform serves one schedule_update request: the re-evaluation runs
\* Scene.check_all_states
reevaluate ==
    /\ requested > 0
    /\ op' = Op("reevaluate", NoEntity, FALSE)
    /\ UNCHANGED <<call, result, learn, transition_time>>
    /\ requested' = requested - 1
    /\ RunCheckAllStates(restore_on_deactivate)
    /\ calls' = <<>>
    /\ error' = "none"
    /\ UNCHANGED <<live, restore_states, restore_on_deactivate,
                   ignore_unavailable, number_tolerance, entity_id, pending>>

Notify ==
    \E e \in EntitySet : \E new_state \in Observations(e) :
        update_callback(e, new_state)

\* Notify while at most MaxInFlight coroutines are in flight
NotifyCapped ==
    \E e \in EntitySet : \E new_state \in Observations(e) :
        /\ update_callback(e, new_state)
        /\ pending' + requested' <= MaxInFlight

Next ==
    \/ turn_on
    \/ turn_off
    \/ check_all
    \/ \E v \in BOOLEAN : set_restore_on_deactivate(v)
    \/ \E v \in BOOLEAN : set_ignore_unavailable(v)
    \/ \E v \in TransitionTimes : set_transition_time(v)
    \/ \E v \in Tolerances : set_number_tolerance(v)
    \/ NotifyCapped
    \/ debounce_elapsed
    \/ reevaluate

Spec == Init /\ [][Next]_vars

\* Scene.__init__ of a scene whose configuration has learn set to True (an
\* external scene, or a declared one with `learn: true`): the constructor
\* sets self.learn and self.learned and otherwise does what it does for any
\* scene
InitLearn ==
    /\ live \in [EntitySet -> UNION {Observations(e) : e \in EntitySet}]
    /\ \A e \in EntitySet : live[e] \in Observations(e)
    /\ is_on = None
    /\ states = [e \in EntitySet |-> PyFalse]
    /\ restore_states = [e \in EntitySet |-> None]
    /\ restore_on_deactivate = TRUE
    /\ ignore_unavailable = FALSE
    /\ number_tolerance = DefaultTolerance
    /\ entity_id \in {SceneEntityId, None}
    /\ pending = 0
    /\ requested = 0
    /\ op = Op("__init__", NoEntity, FALSE)
    /\ call = NoCall
    /\ learn = TRUE
    /\ transition_time = Num(TransitionTime)
    /\ result = "none"
    /\ calls = <<>>
    /\ fetched = <<>>
    /\ error = "none"

\* a learn scene under every operation: no method of Scene reads self.learn
\* except the id property
SpecLearn == InitLearn /\ [][Next]_vars

\* The scene right after a call of check_all_states on a freshly
\* constructed Scene whose two flags have been set, followed by change
\* notifications only.
InitNotify ==
    /\ live \in [EntitySet -> UNION {Observations(e) : e \in EntitySet}]
    /\ \A e \in EntitySet : live[e] \in Observations(e)
    /\ restore_on_deactivate \in BOOLEAN
    /\ ignore_unavailable \in BOOLEAN
    /\ number_tolerance = DefaultTolerance
    /\ LET r == check_all_states([e \in EntitySet |-> PyFalse], live,
                                 restore_on_deactivate, ignore_unavailable)
       IN  /\ states = r.states
           /\ is_on = r.is_on
           /\ fetched = r.fetched
    /\ restore_states = [e \in EntitySet |-> None]
    /\ entity_id \in {SceneEntityId, None}
    /\ pending = 0
    /\ requested = 0
    /\ op = Op("check_all_states", NoEntity, FALSE)
    /\ calls = <<>>
    /\ error = "none"
    /\ call = NoCall
    /\ learn = FALSE
    /\ transition_time = Num(TransitionTime)
    /\ result = "none"

NextNotify ==
    \/ Notify
    \/ debounce_elapsed
    \/ reevaluate

SpecNotify == InitNotify /\ [][NextNotify]_vars

\* SpecNotify with the debounce wait ending: asyncio.sleep(debounce_time)
\* returns after a finite time and the event loop resumes the coroutine
SpecNotifyFair == SpecNotify /\ WF_vars(debounce_elapsed)

-----------------------------------------------------------------------------
(* The comparison functions on their own *)

\* bounds of the values the comparison functions are applied to
MaxNum == 2
MaxLen == 2
MaxTolerance == 1

\* an optional attribute that is not there
Absent == [t |-> "absent"]

Numbers == {Num(i) : i \in 0..MaxNum}
Scalars == {None, PyTrue, PyFalse, Str("on"), Str("off")} \cup Numbers
Components == {Num(0), Num(MaxNum), Str("on")}
Lists == {List(x) : x \in UNION {[1..n -> Components] : n \in 0..MaxLen}}
DictValues == {Num(0), Num(1), PyTrue}
Dicts == {Dict(m) : m \in UNION {[K -> DictValues] : K \in SUBSET {"a", "b"}}}
Nested ==
    {List(<<List(<<Num(0)>>)>>),
     List(<<Dict([a |-> Num(0)])>>),
     Dict([a |-> Dict([b |-> Num(0)])]),
     Dict([a |-> List(<<Num(0), Num(MaxNum)>>)])}
Values == Scalars \cup Lists \cup Dicts \cup Nested

\* the attributes dict holding those of the three attributes that are there
AttrsOf(brightness, rgb_color, friendly_name) ==
    LET pick(k) == CASE k = "brightness" -> brightness
                     [] k = "rgb_color"  -> rgb_color
                     [] OTHER            -> friendly_name
    IN  [k \in {x \in {"brightness", "rgb_color", "friendly_name"} : pick(x) # Absent}
            |-> pick(k)]

PureAttributes ==
    {AttrsOf(b, c, f) :
        b \in {Absent, Num(0), Num(MaxNum)},
        c \in {Absent, None, Num(0), List(<<Num(0), Num(0)>>),
               List(<<Num(0), Num(MaxNum)>>)},
        f \in {Absent, Str("A"), Str("B")}}

\* the observations check_state and is_interesting_update are applied to
PureObservations ==
    {None}
    \cup {State("light", st, attrs) :
             st \in {"on", "off", "unavailable"}, attrs \in PureAttributes}
    \cup {State("switch", "on", [brightness |-> Num(0)]),
          State("switch", "on", [brightness |-> Num(MaxNum)]),
          State("sensor", "on", [brightness |-> Num(0)]),
          State("sensor", "on", [brightness |-> Num(MaxNum)])}

\* the target dicts check_state is applied to
PureTargets ==
    {[state |-> Str("on")],
     [state |-> Str("unavailable")],
     [state |-> Str("on"), brightness |-> Num(0)],
     [state |-> Str("on"), rgb_color |-> List(<<Num(0), Num(0)>>)],
     [state |-> Str("on"), brightness |-> Num(0),
      rgb_color |-> List(<<Num(0), Num(0)>>)],
     [state |-> Str("on"), friendly_name |-> Str("A")]}

SceneVars == <<live, is_on, states, restore_states, restore_on_deactivate,
               ignore_unavailable, number_tolerance, entity_id, pending,
               requested, op, calls, fetched, error, learn,
               transition_time>>

\* the calls of the comparison functions that are made: the function and
\* the arguments it is given
PureCalls ==
    {Call("compare_values", a, b, FALSE) : a \in Values, b \in Values}
    \cup {Call("compare_colors", a, b, xy) :
             a \in Values, b \in Values, xy \in BOOLEAN}
    \cup {Call("check_state", target, new_state, ignore) :
             target \in PureTargets, new_state \in PureObservations,
             ignore \in BOOLEAN}
    \cup {Call("is_interesting_update", old_state, new_state, FALSE) :
             old_state \in PureObservations, new_state \in PureObservations}

\* a constructed Scene with some number_tolerance, on which one of the
\* comparison functions is about to be called with some arguments
InitPure ==
    /\ live = [e \in EntitySet |-> State(e[1], "on", NoAttrs)]
    /\ is_on = None
    /\ states = [e \in EntitySet |-> PyFalse]
    /\ restore_states = [e \in EntitySet |-> None]
    /\ restore_on_deactivate = TRUE
    /\ ignore_unavailable = FALSE
    /\ number_tolerance \in 0..MaxTolerance
    /\ entity_id = SceneEntityId
    /\ pending = 0
    /\ requested = 0
    /\ op = Op("__init__", NoEntity, FALSE)
    /\ calls = <<>>
    /\ fetched = <<>>
    /\ error = "none"
    /\ call \in PureCalls
    /\ learn = FALSE
    /\ transition_time = Num(TransitionTime)
    /\ result = "none"

\* Scene.compare_values(call.a, call.b)
apply_compare_values ==
    /\ call.fn = "compare_values" /\ result = "none"
    /\ result' = IF compare_values(call.a, call.b) THEN "True" ELSE "False"
    /\ UNCHANGED <<SceneVars, call>>

\* Scene.compare_colors(call.a, call.b, call.flag)
apply_compare_colors ==
    /\ call.fn = "compare_colors" /\ result = "none"
    /\ result' = compare_colors_result(call.a, call.b, call.flag)
    /\ UNCHANGED <<SceneVars, call>>

\* Scene.check_state for an entity whose target dict is call.a, applied to
\* the observation call.b with ignore_unavailable being call.flag
apply_check_state ==
    /\ call.fn = "check_state" /\ result = "none"
    /\ result' = check_state_result(call.a, call.b, call.flag)
    /\ UNCHANGED <<SceneVars, call>>

\* Scene.is_interesting_update(call.a, call.b)
apply_is_interesting_update ==
    /\ call.fn = "is_interesting_update" /\ result = "none"
    /\ result' = is_interesting_update_result(call.a, call.b)
    /\ UNCHANGED <<SceneVars, call>>

NextPure ==
    \/ apply_compare_values
    \/ apply_compare_colors
    \/ apply_check_state
    \/ apply_is_interesting_update

SpecPure == InitPure /\ [][NextPure]_vars

-----------------------------------------------------------------------------
(* Properties *)

\* the entity is observed in state "unavailable"
IsUnavailable(obs) == obs # None /\ obs.state = Str("unavailable")

\* the last operation ran check_all_states (every run fetches at least the
\* first declared entity)
CheckAllStatesRan == fetched # <<>>

\* the declared entities before / after position i
Before(i) == {Entities[k] : k \in 1..(i - 1)}
After(i) == {Entities[k] : k \in (i + 1)..Len(Entities)}

\* C1: with ignore_unavailable enabled, a run of check_all_states that finds
\* every entity of the scene unavailable leaves the scene off.
C1_AllUnavailableIsOff ==
    (/\ CheckAllStatesRan
     /\ ignore_unavailable
     /\ \A e \in EntitySet : IsUnavailable(live[e]))
    => is_on = PyFalse

\* C2: with ignore_unavailable enabled and at least one entity not
\* unavailable, a run of check_all_states sets is_on to true exactly when
\* every entity that is not unavailable matches its target.
C2_UnavailableExcluded ==
    (/\ CheckAllStatesRan
     /\ ignore_unavailable
     /\ \E e \in EntitySet : ~IsUnavailable(live[e]))
    => (is_on = PyTrue <=>
           \A e \in EntitySet :
               ~IsUnavailable(live[e]) => check_state(e, live[e], TRUE) = PyTrue)

\* C3: with restore_on_deactivate off, check_all_states stops at the first
\* declared entity whose result is not Matched: is_on becomes false, no
\* later entity is fetched and the cached result of every later entity is
\* left as it was.
C3_ShortCircuit ==
    [][\A i \in 1..Len(Entities) :
          (/\ op'.name \in {"check_all_states", "reevaluate"}
           /\ ~restore_on_deactivate
           /\ check_state(Entities[i], live[Entities[i]], ignore_unavailable) # PyTrue
           /\ \A e \in Before(i) : check_state(e, live[e], ignore_unavailable) = PyTrue)
          => /\ is_on' = PyFalse
             /\ fetched' = SubSeq(Entities, 1, i)
             /\ \A e \in After(i) : states'[e] = states[e]]_vars

\* C3 witness: a short-circuited pass that left a stale Matched result for
\* a later entity that no longer matches.
C3_Witness ==
    /\ op.name = "check_all_states"
    /\ ~restore_on_deactivate
    /\ fetched = <<Entities[1]>>
    /\ states[Entities[2]] = PyTrue
    /\ check_state(Entities[2], live[Entities[2]], ignore_unavailable) = PyFalse

\* C4: once every debounce wait has elapsed and every requested
\* re-evaluation has run, is_on is the verdict check_all_states computes
\* from the current live states.
C4_QuiescentVerdictIsLive ==
    (pending = 0 /\ requested = 0)
    => is_on = check_all_states(states, live, restore_on_deactivate,
                                ignore_unavailable).is_on

\* C5: turn_off on a scene that is On makes exactly one service call and
\* then sets is_on to false: scene.apply with the restore payload when
\* restore_on_deactivate is set, otherwise homeassistant.turn_off on the
\* declared entities.
C5_TurnOffWhenOn ==
    [][(op'.name = "turn_off" /\ is_on = PyTrue)
       => /\ Len(calls') = 1
          /\ is_on' = PyFalse
          /\ IF restore_on_deactivate
             THEN /\ calls'[1].domain = "scene"
                  /\ calls'[1].service = "apply"
                  /\ calls'[1].service_data.entities = restore_entities(restore_states)
             ELSE /\ calls'[1].domain = "homeassistant"
                  /\ calls'[1].service = "turn_off"
                  /\ calls'[1].target.entity_id = Entities]_vars

\* C5 witness: a scene that was On was deactivated by a restore call built
\* from a stored observation.
C5_Witness ==
    /\ op.name = "turn_off"
    /\ is_on = PyFalse
    /\ Len(calls) = 1
    /\ calls[1].service = "apply"
    /\ \E e \in EntitySet : restore_states[e] # None

\* the other kind of deactivation: the generic turn_off call
C5_WitnessTurnOff ==
    /\ op.name = "turn_off"
    /\ is_on = PyFalse
    /\ Len(calls) = 1
    /\ calls[1].service = "turn_off"

\* C6: turn_off on a scene that is Off or Unknown makes no service call and
\* changes neither is_on nor the two per-entity caches.
C6_TurnOffNoOp ==
    [][(op'.name = "turn_off" /\ is_on # PyTrue)
       => /\ calls' = <<>>
          /\ is_on' = is_on
          /\ states' = states
          /\ restore_states' = restore_states]_vars

\* C6 witness: turn_off ran on a scene that is still Unknown.
C6_Witness ==
    /\ op.name = "turn_off"
    /\ is_on = None
    /\ calls = <<>>

\* C7: turn_on without a resolvable entity_id fails with
\* StatefulScenesYamlInvalid, makes no service call and leaves is_on alone;
\* with an entity_id it makes the scene.turn_on call once with the
\* transition time and sets is_on to true.
C7_TurnOn ==
    [][op'.name = "turn_on"
       => IF entity_id = None
          THEN /\ error' = "StatefulScenesYamlInvalid"
               /\ calls' = <<>>
               /\ is_on' = is_on
          ELSE /\ error' = "none"
               /\ calls' = <<turn_on_call(entity_id, transition_time)>>
               /\ calls'[1].service_data.transition = transition_time
               /\ is_on' = PyTrue]_vars

\* C8: set_restore_on_deactivate runs check_all_states, with the flag
\* already true and so over every entity, exactly when the flag goes from
\* false to true, after which every cached result is check_state of the
\* live state; any other setting fetches nothing and changes neither is_on
\* nor a cached result.
C8_ToggleRecomputes ==
    [][op'.name = "set_restore_on_deactivate"
       => IF ~restore_on_deactivate /\ op'.value
          THEN /\ fetched' = Entities
               /\ \A e \in EntitySet :
                     states'[e] = check_state(e, live[e], ignore_unavailable)
          ELSE /\ fetched' = <<>>
               /\ is_on' = is_on
               /\ states' = states]_vars

\* C8 witness: the toggle re-evaluated past a first entity that does not
\* match.
C8_Witness ==
    /\ op.name = "set_restore_on_deactivate"
    /\ op.value
    /\ fetched = Entities
    /\ states[Entities[1]] # PyTrue
    /\ states[Entities[2]] = PyTrue

\* C9 as stated: after update_callback handles a notification for e,
\* restore_states[e] is the new state the notification delivered.
C9_StoresNewState ==
    [][op'.name = "update_callback"
       => restore_states'[op'.entity] = live'[op'.entity]]_vars

\* C9 amended: after update_callback handles a notification for e,
\* restore_states[e] is the old state the notification delivered (the
\* observation that preceded the change), stored whether or not the change
\* is interesting, and no other entity's entry changes.
C9_StoresOldState ==
    [][op'.name = "update_callback"
       => /\ restore_states'[op'.entity] = live[op'.entity]
          /\ \A e \in EntitySet \ {op'.entity} :
                restore_states'[e] = restore_states[e]]_vars

\* C9 witness: a notification that was not interesting stored the previous
\* observation of an entity that does not match its target.
C9_Witness ==
    /\ op.name = "update_callback"
    /\ ~op.value
    /\ restore_states[op.entity] # None
    /\ restore_states[op.entity] # live[op.entity]
    /\ check_state(op.entity, live[op.entity], ignore_unavailable) = PyFalse

\* C10: the payload of the restore call has an entry for exactly the
\* entities whose stored observation is present, and each entry holds the
\* observed state plus exactly the observed attributes that are in the
\* allow-list of the entity's domain.
C10_RestorePayload ==
    (calls # <<>> /\ calls[1].service = "apply")
    => LET payload == calls[1].service_data.entities
       IN  /\ DOMAIN payload = {e \in EntitySet : restore_states[e] # None}
           /\ \A e \in DOMAIN payload :
                 /\ payload[e].state = restore_states[e].state
                 /\ DOMAIN payload[e] \ {"state"} =
                       {a \in DOMAIN restore_states[e].attributes :
                           /\ e[1] \in DOMAIN ATTRIBUTES_TO_CHECK
                           /\ \E k \in DOMAIN ATTRIBUTES_TO_CHECK[e[1]] :
                                 ATTRIBUTES_TO_CHECK[e[1]][k] = a}
                 /\ \A a \in DOMAIN payload[e] \ {"state"} :
                       payload[e][a] = restore_states[e].attributes[a]

\* C10 witness: a restore call that omits a never-observed entity and keeps
\* an allow-listed attribute of an observed one.
C10_Witness ==
    /\ calls # <<>>
    /\ calls[1].service = "apply"
    /\ restore_states[<<"switch", "b">>] = None
    /\ restore_states[<<"light", "a">>] # None
    /\ "brightness" \in DOMAIN calls[1].service_data.entities[<<"light", "a">>]

\* a restore call whose entry for the light drops the observed
\* friendly_name, which the light allow-list does not contain
C10_WitnessDropped ==
    /\ calls # <<>>
    /\ calls[1].service = "apply"
    /\ restore_states[<<"light", "a">>] # None
    /\ "friendly_name" \in DOMAIN restore_states[<<"light", "a">>].attributes
    /\ DOMAIN calls[1].service_data.entities[<<"light", "a">>] = {"state"}

\* C11: with restore_on_deactivate on, a run of check_all_states fetches
\* every declared entity once in declared order, whatever it finds, and
\* leaves every cached result equal to check_state of the live state.
C11_FullScan ==
    (CheckAllStatesRan /\ restore_on_deactivate)
    => /\ fetched = Entities
       /\ \A e \in EntitySet :
             states[e] = check_state(e, live[e], ignore_unavailable)

\* C11 witness: a full pass that went on past a missing first entity.
C11_Witness ==
    /\ op.name = "check_all_states"
    /\ restore_on_deactivate
    /\ live[Entities[1]] = None
    /\ fetched = Entities
    /\ states[Entities[1]] = PyFalse
    /\ states[Entities[2]] = PyTrue

-----------------------------------------------------------------------------
(* The comparison functions: C12 to C16 *)

\* the call of fn has returned or raised
Applied(fn) == call.fn = fn /\ result # "none"

\* the allow-listed attributes present on both sides
SharedAllowed(domain, wanted, got) ==
    AllowList(domain) \cap DOMAIN wanted \cap DOMAIN got

\* the tri-state the ordered rules give: absent, then unavailable and
\* ignored, then the state, then the attributes present on both sides
OrderedVerdict(target, observed, ignore) ==
    IF observed = None THEN "False"
    ELSE IF observed.state = Str("unavailable") /\ ignore THEN "None"
    ELSE IF ~compare_values(target.state, observed.state) THEN "False"
    ELSE IF \E k \in SharedAllowed(observed.domain, target, observed.attributes) :
                ~attribute_match(k, target[k], observed.attributes[k])
         THEN "False"
    ELSE "True"

\* C12: check_state returns the tri-state decided in the order absent ->
\* NotMatched, unavailable and ignored -> Unknown, state differs ->
\* NotMatched, an allow-listed attribute present on both sides differs ->
\* NotMatched, otherwise Matched; it returns one of the three for every
\* target and observation.
C12_CheckStateOrder ==
    Applied("check_state")
    => result = OrderedVerdict(call.a, call.b, call.flag)

\* what the rule of C13 gives for an old and a new observation
InterestingRule(old, new) ==
    IF old = None THEN "True"
    ELSE IF \/ ~compare_values(old.state, new.state)
            \/ \E k \in SharedAllowed(new.domain, old.attributes, new.attributes) :
                  ~attribute_match(k, old.attributes[k], new.attributes[k])
         THEN "True"
    ELSE "False"

\* C13: is_interesting_update returns true when the old observation is
\* absent, and otherwise, for a new observation that exists, true exactly
\* when the states differ or an allow-listed attribute present in both
\* differs.
C13_InterestingUpdate ==
    (Applied("is_interesting_update") /\ (call.a = None \/ call.b # None))
    => result = InterestingRule(call.a, call.b)

IsScalar(v) == v.t \in {"str", "bool"}
IsPlainNumber(v) == v.t = "num"

RECURSIVE specified_equal(_, _)
\* equal(a, b, tolerance) as C14 states it: scalars structurally, numbers
\* within the tolerance, sequences over the zipped prefix, mappings by
\* containment, everything else false
specified_equal(a, b) ==
    IF IsScalar(a) /\ IsScalar(b) THEN a = b
    ELSE IF IsPlainNumber(a) /\ IsPlainNumber(b)
         THEN Abs(a.n - b.n) <= number_tolerance
    ELSE IF IsList(a) /\ IsList(b)
         THEN \A i \in 1..Min(Len(a.items), Len(b.items)) :
                 specified_equal(a.items[i], b.items[i])
    ELSE IF IsDict(a) /\ IsDict(b)
         THEN \A k \in DOMAIN a.map :
                 k \in DOMAIN b.map /\ specified_equal(a.map[k], b.map[k])
    ELSE FALSE

\* C14: for every pair of attribute values (strings, booleans, numbers,
\* sequences, mappings) and every tolerance, compare_values returns what the
\* specified equal returns.
C14_CompareValuesIsEqual ==
    (Applied("compare_values") /\ call.a # None /\ call.b # None)
    => (result = "True") = specified_equal(call.a, call.b)

\* a is a strict sub-mapping of b
StrictSubMapping(a, b) ==
    /\ IsDict(a) /\ IsDict(b)
    /\ DOMAIN a.map \subseteq DOMAIN b.map
    /\ DOMAIN a.map # DOMAIN b.map
    /\ \A k \in DOMAIN a.map : a.map[k] = b.map[k]

\* C15: on two mappings compare_values is true exactly when every key of
\* the first is in the second with an equal value; for a strict sub-mapping
\* a of b, compare_values(a, b) is true and compare_values(b, a) is false;
\* compare_values(a, a) is true at tolerance 0 for every value.
C15_MappingContainment ==
    Applied("compare_values")
    => /\ (IsDict(call.a) /\ IsDict(call.b))
          => ((result = "True")
              = (\A k \in DOMAIN call.a.map :
                    /\ k \in DOMAIN call.b.map
                    /\ compare_values(call.a.map[k], call.b.map[k])))
       /\ StrictSubMapping(call.a, call.b) => result = "True"
       /\ StrictSubMapping(call.b, call.a) => result = "False"
       /\ (number_tolerance = 0 /\ call.a = call.b) => result = "True"

\* C15 witness: compare_values was applied to a mapping and a mapping with
\* one more key, and returned true
C15_Witness ==
    /\ Applied("compare_values")
    /\ StrictSubMapping(call.a, call.b)
    /\ DOMAIN call.a.map # {}
    /\ result = "True"

\* C15 witness of the other direction: the larger mapping first gives false
C15_WitnessReverse ==
    /\ Applied("compare_values")
    /\ StrictSubMapping(call.b, call.a)
    /\ result = "False"

\* every component of the zipped prefix of two sequences is a number
NumericPrefix(a, b) ==
    \A i \in 1..Min(Len(a.items), Len(b.items)) :
        IsNumber(a.items[i]) /\ IsNumber(b.items[i])

\* C16: compare_colors never raises; both absent is true, exactly one
\* absent is false, either side not a sequence is false, and two sequences
\* of numbers compare over the zipped prefix with the delta times 100 for
\* xy_color and times 1 otherwise, against the inclusive tolerance.
C16_ColorsNeverFail ==
    Applied("compare_colors")
    => LET a == call.a
           b == call.b
           factor == IF call.flag THEN 100 ELSE 1
       IN  /\ result \in {"True", "False"}
           /\ (a = None /\ b = None) => result = "True"
           /\ ((a = None) # (b = None)) => result = "False"
           /\ (a # None /\ b # None /\ (~IsList(a) \/ ~IsList(b)))
              => result = "False"
           /\ (IsList(a) /\ IsList(b) /\ NumericPrefix(a, b))
              => ((result = "True")
                  = (\A i \in 1..Min(Len(a.items), Len(b.items)) :
                        Abs(NumVal(a.items[i]) - NumVal(b.items[i])) * factor
                            <= number_tolerance))

-----------------------------------------------------------------------------
(* The caches, the debounce and the scene state: C17 to C20 *)

\* the step writes self.states[e]: a pass of check_all_states fetched e
WritesMatch(e) == e \in Range(fetched')

\* the step writes self.restore_states[e]: update_callback handled an event
\* of e
WritesObservation(e) == op'.name = "update_callback" /\ op'.entity = e

\* C17 as stated: an operation that writes one of the two caches of an
\* entity writes the other in the same step, and the match result it leaves
\* is the comparison of the cached observation with the target.
C17_CachesInStep ==
    [][\A e \in EntitySet :
          /\ WritesMatch(e) <=> WritesObservation(e)
          /\ (WritesMatch(e) \/ WritesObservation(e))
             => states'[e] = check_state(e, restore_states'[e], ignore_unavailable')
       ]_vars

\* C17 amended: the two caches are written by different operations, never
\* in one step: a pass of check_all_states writes states[e] of each entity
\* it fetches as check_state of the live fetch and leaves restore_states
\* alone; update_callback writes restore_states[e] of the entity of the
\* event (its old state) and leaves states alone; nothing else writes them.
C17_CachesWrittenApart ==
    [][/\ fetched' # <<>>
          => /\ op'.name # "update_callback"
             /\ \A e \in Range(fetched') :
                   states'[e] = check_state(e, live[e], ignore_unavailable')
       /\ \A e \in EntitySet \ Range(fetched') : states'[e] = states[e]
       /\ op'.name = "update_callback"
          => /\ fetched' = <<>>
             /\ restore_states' =
                   [restore_states EXCEPT ![op'.entity] = live[op'.entity]]
       /\ op'.name # "update_callback" => restore_states' = restore_states
      ]_vars

\* C17 witness: update_callback has stored an observation for an entity and
\* left its cached result Matched, while the entity's live state does not
\* match the target
C17_Witness ==
    /\ op.name = "update_callback"
    /\ restore_states[op.entity] # None
    /\ states[op.entity] = PyTrue
    /\ check_state(op.entity, live[op.entity], ignore_unavailable) = PyFalse
    /\ fetched = <<>>

\* C18 as stated: an interesting notification supersedes the waits that are
\* pending, so that one wait is pending after it.
C18_Superseded ==
    [][(op'.name = "update_callback" /\ op'.value) => pending' = 1]_vars

\* C18 amended: waits are stacked: every interesting notification adds a
\* wait of its own and cancels none, every wait that elapses issues one
\* schedule_update request, and nothing else changes the pending waits.
C18_WaitsStack ==
    [][/\ (op'.name = "update_callback" /\ op'.value)
          => (pending' = pending + 1 /\ requested' = requested)
       /\ op'.name = "schedule_update"
          => (pending' = pending - 1 /\ requested' = requested + 1)
       /\ (op'.name # "schedule_update"
           /\ ~(op'.name = "update_callback" /\ op'.value))
          => pending' = pending
      ]_vars

\* C18 witness: two interesting notifications inside one debounce window
\* have produced two schedule_update requests
C18_Witness ==
    /\ op.name = "schedule_update"
    /\ requested = 2
    /\ pending = 0

\* C19: an interesting notification is eventually followed by a
\* schedule_update request issued after it; a notification that is not
\* interesting issues no request, starts no wait and changes neither is_on
\* nor any cached match result.
C19_InterestingLeadsToRequest ==
    /\ [][(op'.name = "update_callback" /\ ~op'.value)
          => /\ pending' = pending
             /\ requested' = requested
             /\ is_on' = is_on
             /\ states' = states]_vars
    /\ (op.name = "update_callback" /\ op.value) ~> (op.name = "schedule_update")

\* C19 witness: the wait of an interesting notification has elapsed and its
\* request is outstanding, with no other wait or request around
C19_Witness ==
    /\ op.name = "schedule_update"
    /\ requested = 1
    /\ pending = 0

\* C20 as stated: every change of the scene state is Unknown -> On,
\* On -> Off or Off -> On, and only turn_on leaves Unknown.
C20_UnknownOnOff ==
    [][is_on' # is_on
       => /\ <<is_on, is_on'>> \in {<<None, PyTrue>>, <<PyTrue, PyFalse>>,
                                    <<PyFalse, PyTrue>>}
          /\ is_on = None => op'.name = "turn_on"]_vars

\* C20 amended: the scene state never returns to Unknown; it changes only
\* in turn_on (to On), in turn_off (from On to Off, never from Unknown) and
\* in a pass of check_all_states, which also takes Unknown to Off or On by
\* comparison.
C20_Transitions ==
    [][/\ is_on' = None => is_on = None
       /\ is_on' # is_on
          => \/ op'.name = "turn_on" /\ is_on' = PyTrue
             \/ op'.name = "turn_off" /\ is_on = PyTrue /\ is_on' = PyFalse
             \/ /\ op'.name \in {"check_all_states", "reevaluate",
                                 "set_restore_on_deactivate"}
                /\ fetched' # <<>>
      ]_vars

\* C20 witness: a scene that was never activated (turn_on cannot succeed
\* without an entity id) has been taken from Unknown to Off by
\* check_all_states
C20_Witness ==
    /\ op.name = "check_all_states"
    /\ entity_id = None
    /\ is_on = PyFalse

-----------------------------------------------------------------------------
(* Learn scenes: C21 *)

\* C21: for a scene with learn = true no run of check_all_states (direct,
\* by the restore_on_deactivate toggle or by a re-evaluation after a change
\* notification) changes is_on; only turn_on and turn_off change it.
C21_LearnNeverCompared ==
    [][(learn /\ is_on' # is_on) => op'.name \in {"turn_on", "turn_off"}]_vars

====
